---- MODULE Spec2Model ----
(***************************************************************************)
(* Model of explainable_ai/metta_service.py: the priority calculation of   *)
(* the local MeTTa service.                                                *)
(*                                                                         *)
(* Numbers.  The program computes with Python floats.  The model keeps     *)
(* every quantity as an integer count of a fixed decimal unit:             *)
(*   metrics and weights      tenths            (0.7  is 7)                *)
(*   weighted contributions   hundredths        (0.28 is 28)               *)
(*   priority_score (raw)     millionths        (0.7  is 700000)           *)
(*   allocation (raw)         millionths of 1%  (70%  is 70000000)         *)
(*   confidence (raw)         ten-millionths    (0.85 is 8500000)          *)
(* and the rounded fields of the result in the unit of their last digit.   *)
(* The binary rounding error of the float sum is far below every decimal   *)
(* digit the program looks at, but it has a sign, and the sign decides the *)
(* comparisons at a threshold and the direction of round() at a decimal    *)
(* half.  It is kept as a residue of -1, 0 or 1 of the finest unit, chosen *)
(* by the environment of each call.                                        *)
(***************************************************************************)
EXTENDS Integers, Sequences, FiniteSets

VARIABLES pc, entry, data, args, metta, fp, branch, raw_score,
          raw_allocation, result

vars == <<pc, entry, data, args, metta, fp, branch, raw_score,
          raw_allocation, result>>

(* ---------------------------------------------------------------------- *)
(* Bounds and units                                                        *)
(* ---------------------------------------------------------------------- *)

\* largest metric value drawn, in tenths
MaxTenths == 10

\* the literal 1 of "1 - corruption_risk", in tenths
One == 10

\* millionths in one hundredth
MicroPerHundredth == 10000

Metrics == 0 .. MaxTenths

Keys == {"poverty_index", "project_impact", "environmental_score", "corruption_risk"}

\* a key the mapping does not hold
Absent == -1

\* sign of the float rounding error of a sum
Residue == {-1, 0, 1}

\* the scores (millionths) the program compares priority_score against,
\* directly (0.3, 0.5, 0.7) or through priority_score * 100 (10, 50, 70, 100)
Thresholds == {100000, 300000, 500000, 700000, 1000000}

\* what the hyperon engine does in one call
MettaOutcomes == {"unavailable", "run_error", "empty", "no_atom", "unparsable", "number"}

NoResult == [status |-> "pending"]

(* ---------------------------------------------------------------------- *)
(* Number helpers                                                          *)
(* ---------------------------------------------------------------------- *)

Min(a, b) == IF a <= b THEN a ELSE b

Max(a, b) == IF a >= b THEN a ELSE b

\* round(x, ndigits) of a float: x counted in a unit, step units make one
\* last digit of the result; the result counts last digits.  A decimal half
\* is no binary float, so the float lies on one side of it: tieUp says which.
Round(x, step, tieUp) ==
    LET q == x \div step
        rem == x % step
    IN  IF 2 * rem > step \/ (2 * rem = step /\ tieUp) THEN q + 1 ELSE q

\* format(x, ".1%"): x in millionths, the result in tenths of a percent
Percent(x, tieUp) == Round(x, 1000, tieUp)

\* a metric in tenths as the float it stands for, in millionths
Micro(m) == m * 10 * MicroPerHundredth

(* ---------------------------------------------------------------------- *)
(* calculate_priority_python                                               *)
(* ---------------------------------------------------------------------- *)

POVERTY_WEIGHT == 4

IMPACT_WEIGHT == 3

ENVIRONMENTAL_WEIGHT == 2

CORRUPTION_WEIGHT == 1

\* a calculate_priority_python whose corruption term is not inverted
calculate_priority_python_NotInverted(poverty_index, project_impact, environmental_score, corruption_risk, r) ==
    ( poverty_index * POVERTY_WEIGHT
    + project_impact * IMPACT_WEIGHT
    + environmental_score * ENVIRONMENTAL_WEIGHT
    + corruption_risk * CORRUPTION_WEIGHT ) * MicroPerHundredth + r

\* the weighted score in millionths; r is the rounding residue of the sum
calculate_priority_python(poverty_index, project_impact, environmental_score, corruption_risk, r) ==
    ( poverty_index * POVERTY_WEIGHT
    + project_impact * IMPACT_WEIGHT
    + environmental_score * ENVIRONMENTAL_WEIGHT
    + (One - corruption_risk) * CORRUPTION_WEIGHT ) * MicroPerHundredth + r

\* the residues a call can see: away from a threshold the sign of the residue
\* changes nothing the program computes, so it is drawn only at a threshold
Residues(a) ==
    IF calculate_priority_python(a.poverty_index, a.project_impact,
                                 a.environmental_score, a.corruption_risk, 0) \in Thresholds
    THEN Residue
    ELSE {0}

(* ---------------------------------------------------------------------- *)
(* The MeTTa attempt of calculate_priority                                 *)
(* ---------------------------------------------------------------------- *)

\* what the MeTTa program of the f-string evaluates to when the engine
\* reduces it: the same weighted sum, with the engine's own residue
MettaProgram(poverty_index, project_impact, environmental_score, corruption_risk, r) ==
    ( poverty_index * 4
    + project_impact * 3
    + environmental_score * 2
    + (One - corruption_risk) * 1 ) * MicroPerHundredth + r

\* the statements of the try block: the exception one of them raises, or
\* the score they assign
TryBlock(m, poverty_index, project_impact, environmental_score, corruption_risk, r) ==
    CASE m = "unavailable" -> [raises |-> "ImportError"]
      [] m = "run_error"   -> [raises |-> "RuntimeError"]
      [] m = "no_atom"     -> [raises |-> "IndexError"]
      [] m = "unparsable"  -> [raises |-> "ValueError"]
      [] m = "empty"       ->
            [raises |-> "none", path |-> "python",
             score |-> calculate_priority_python(poverty_index, project_impact,
                                                 environmental_score, corruption_risk, r)]
      [] m = "number"      ->
            [raises |-> "none", path |-> "metta",
             score |-> MettaProgram(poverty_index, project_impact,
                                    environmental_score, corruption_risk, r)]

\* the subclasses of Exception among the exceptions the try block raises
ExceptionSubclasses == {"ImportError", "RuntimeError", "IndexError", "ValueError"}

\* an except clause that names ImportError only
Handles_ImportOnly(exc) == exc = "ImportError"

\* except Exception
Handles(exc) == exc \in ExceptionSubclasses

(* ---------------------------------------------------------------------- *)
(* Level, allocation, confidence                                           *)
(* ---------------------------------------------------------------------- *)

\* a level chain whose comparisons are strict
PriorityLevel_Strict(score) ==
    IF score > 700000 THEN "critical"
    ELSE IF score > 500000 THEN "high"
    ELSE IF score > 300000 THEN "medium"
    ELSE "low"

\* the if/elif chain on priority_score (millionths)
PriorityLevel(score) ==
    IF score >= 700000 THEN "critical"
    ELSE IF score >= 500000 THEN "high"
    ELSE IF score >= 300000 THEN "medium"
    ELSE "low"

\* an allocation without the floor of 10
AllocationPercentage_NoFloor(score) == Min(100 * 1000000, score * 100)

\* min(100, max(10, priority_score * 100)), in millionths of a percent
AllocationPercentage(score) == Min(100 * 1000000, Max(10 * 1000000, score * 100))

\* a confidence that starts from 0.8
ConfidenceScore_Base80(score, tieUp) == Round(8000000 + score, 100000, tieUp)

\* round(0.85 + priority_score * 0.1, 2), in hundredths
ConfidenceScore(score, tieUp) == Round(8500000 + score, 100000, tieUp)

\* the factors dict, in hundredths
Factors(poverty_index, project_impact, environmental_score, corruption_risk) ==
    [poverty_index       |-> poverty_index * 4,
     project_impact      |-> project_impact * 3,
     environmental_score |-> environmental_score * 2,
     corruption_risk     |-> (One - corruption_risk) * 1]

(* ---------------------------------------------------------------------- *)
(* generate_explanation                                                    *)
(* ---------------------------------------------------------------------- *)

\* the template chosen by the level and the percentages it interpolates
generate_explanation(score, priority_level, poverty_index, project_impact, environmental_score, corruption_risk, tieUp) ==
    CASE priority_level = "critical" ->
            [text |-> "This region shows CRITICAL need",
             score |-> Percent(score, tieUp),
             metrics |-> <<Percent(Micro(poverty_index), tieUp),
                           Percent(Micro(project_impact), tieUp)>>]
      [] priority_level = "high" ->
            [text |-> "This region has HIGH priority",
             score |-> Percent(score, tieUp),
             metrics |-> <<Percent(Micro(poverty_index), tieUp),
                           Percent(Micro(environmental_score), tieUp)>>]
      [] priority_level = "medium" ->
            [text |-> "This region shows MEDIUM priority",
             score |-> Percent(score, tieUp), metrics |-> <<>>]
      [] priority_level = "low" ->
            [text |-> "This region has LOWER priority",
             score |-> Percent(score, tieUp), metrics |-> <<>>]
      [] OTHER ->
            [text |-> "Priority calculated based on regional metrics.",
             score |-> 0, metrics |-> <<>>]

(* ---------------------------------------------------------------------- *)
(* generate_key_findings                                                   *)
(* ---------------------------------------------------------------------- *)

\* a finding: its text and the percentage it quotes (tenths of a percent)
Finding(text, metric) == [text |-> text, pct |-> Percent(Micro(metric), TRUE)]

Balanced == [text |-> "Metrics indicate balanced conditions across all indicators", pct |-> 0]

\* findings whose low-corruption test is strict
generate_key_findings_StrictLow(poverty_index, project_impact, environmental_score, corruption_risk) ==
    LET findings ==
            (IF poverty_index >= 7
             THEN <<Finding("High poverty rate detected", poverty_index)>> ELSE <<>>)
         \o (IF project_impact >= 7
             THEN <<Finding("High project impact potential", project_impact)>> ELSE <<>>)
         \o (IF environmental_score >= 7
             THEN <<Finding("Severe environmental degradation", environmental_score)>> ELSE <<>>)
         \o (IF corruption_risk >= 6
             THEN <<Finding("Elevated corruption risk", corruption_risk)>>
             ELSE IF corruption_risk < 3
             THEN <<Finding("Low corruption risk", corruption_risk)>> ELSE <<>>)
    IN  IF findings = <<>> THEN <<Balanced>> ELSE findings

generate_key_findings(poverty_index, project_impact, environmental_score, corruption_risk) ==
    LET findings ==
            (IF poverty_index >= 7
             THEN <<Finding("High poverty rate detected", poverty_index)>> ELSE <<>>)
         \o (IF project_impact >= 7
             THEN <<Finding("High project impact potential", project_impact)>> ELSE <<>>)
         \o (IF environmental_score >= 7
             THEN <<Finding("Severe environmental degradation", environmental_score)>> ELSE <<>>)
         \o (IF corruption_risk >= 6
             THEN <<Finding("Elevated corruption risk", corruption_risk)>>
             ELSE IF corruption_risk <= 3
             THEN <<Finding("Low corruption risk", corruption_risk)>> ELSE <<>>)
    IN  IF findings = <<>> THEN <<Balanced>> ELSE findings

(* ---------------------------------------------------------------------- *)
(* generate_recommendations                                                *)
(* ---------------------------------------------------------------------- *)

\* recommendations whose first band test is strict
generate_recommendations_StrictBand(priority_level, allocation_percentage, poverty_index, project_impact, environmental_score, corruption_risk) ==
       (IF allocation_percentage > 70 * 1000000
        THEN <<"Allocate majority of available funds to this region",
               "Fast-track project approvals and implementation">>
        ELSE IF allocation_percentage >= 50 * 1000000
        THEN <<"Provide substantial funding allocation",
               "Implement standard monitoring protocols">>
        ELSE <<"Provide moderate funding allocation",
               "Monitor for changing conditions">>)
    \o (IF poverty_index >= 7
        THEN <<"Prioritize poverty alleviation programs",
               "Implement cash transfer or social safety net schemes">> ELSE <<>>)
    \o (IF project_impact >= 7
        THEN <<"Maximize investment in high-impact projects">> ELSE <<>>)
    \o (IF environmental_score >= 7
        THEN <<"Include environmental restoration components",
               "Engage local communities in conservation">> ELSE <<>>)
    \o (IF corruption_risk >= 6
        THEN <<"Establish strong audit and oversight mechanisms",
               "Use transparent digital payment systems">> ELSE <<>>)

\* recommendations whose corruption items use the threshold of the others
generate_recommendations_Corruption7(priority_level, allocation_percentage, poverty_index, project_impact, environmental_score, corruption_risk) ==
       (IF allocation_percentage >= 70 * 1000000
        THEN <<"Allocate majority of available funds to this region",
               "Fast-track project approvals and implementation">>
        ELSE IF allocation_percentage >= 50 * 1000000
        THEN <<"Provide substantial funding allocation",
               "Implement standard monitoring protocols">>
        ELSE <<"Provide moderate funding allocation",
               "Monitor for changing conditions">>)
    \o (IF poverty_index >= 7
        THEN <<"Prioritize poverty alleviation programs",
               "Implement cash transfer or social safety net schemes">> ELSE <<>>)
    \o (IF project_impact >= 7
        THEN <<"Maximize investment in high-impact projects">> ELSE <<>>)
    \o (IF environmental_score >= 7
        THEN <<"Include environmental restoration components",
               "Engage local communities in conservation">> ELSE <<>>)
    \o (IF corruption_risk >= 7
        THEN <<"Establish strong audit and oversight mechanisms",
               "Use transparent digital payment systems">> ELSE <<>>)

generate_recommendations(priority_level, allocation_percentage, poverty_index, project_impact, environmental_score, corruption_risk) ==
       (IF allocation_percentage >= 70 * 1000000
        THEN <<"Allocate majority of available funds to this region",
               "Fast-track project approvals and implementation">>
        ELSE IF allocation_percentage >= 50 * 1000000
        THEN <<"Provide substantial funding allocation",
               "Implement standard monitoring protocols">>
        ELSE <<"Provide moderate funding allocation",
               "Monitor for changing conditions">>)
    \o (IF poverty_index >= 7
        THEN <<"Prioritize poverty alleviation programs",
               "Implement cash transfer or social safety net schemes">> ELSE <<>>)
    \o (IF project_impact >= 7
        THEN <<"Maximize investment in high-impact projects">> ELSE <<>>)
    \o (IF environmental_score >= 7
        THEN <<"Include environmental restoration components",
               "Engage local communities in conservation">> ELSE <<>>)
    \o (IF corruption_risk >= 6
        THEN <<"Establish strong audit and oversight mechanisms",
               "Use transparent digital payment systems">> ELSE <<>>)

(* ---------------------------------------------------------------------- *)
(* calculate_priority and get_priority_calculation                         *)
(* ---------------------------------------------------------------------- *)

\* calculate_priority in the environment (m, r, tieUp): m is what the engine
\* does, r the residue of the score, tieUp the side of a decimal half.
\* The outcome holds the locals priority_score and allocation_percentage,
\* the branch that assigned the score, and the returned dict.
calculate_priority(poverty_index, project_impact, environmental_score, corruption_risk, m, r, tieUp) ==
    LET try == TryBlock(m, poverty_index, project_impact, environmental_score,
                        corruption_risk, r)
        raised == try.raises # "none"
        score == IF raised
                 THEN calculate_priority_python(poverty_index, project_impact,
                                                environmental_score, corruption_risk, r)
                 ELSE try.score
        by == IF raised THEN "python" ELSE try.path
        priority_level == PriorityLevel(score)
        allocation == AllocationPercentage(score)
    IN  IF raised /\ ~Handles(try.raises)
        THEN [path |-> "none", priority_score |-> 0, allocation_percentage |-> 0,
              result |-> [status |-> "raised", exception |-> try.raises]]
        ELSE [path |-> by, priority_score |-> score,
              allocation_percentage |-> allocation,
              result |->
                [status |-> "returned",
                 priority_score |-> Round(score, 100, tieUp),
                 priority_level |-> priority_level,
                 allocation_percentage |-> Round(allocation, 10000, tieUp),
                 confidence_score |-> ConfidenceScore(score, tieUp),
                 explanation |-> generate_explanation(score, priority_level,
                                    poverty_index, project_impact,
                                    environmental_score, corruption_risk, tieUp),
                 key_findings |-> generate_key_findings(poverty_index, project_impact,
                                    environmental_score, corruption_risk),
                 recommendations |-> generate_recommendations(priority_level, allocation,
                                    poverty_index, project_impact,
                                    environmental_score, corruption_risk),
                 factors |-> Factors(poverty_index, project_impact,
                                    environmental_score, corruption_risk),
                 engine |-> "metta_local"]]

\* data.get(key, default)
Get(d, key, default) == IF d[key] = Absent THEN default ELSE d[key]

\* the positional arguments get_priority_calculation passes on, with a
\* corruption default equal to the other three
Forwarded_SameDefault(d) ==
    [poverty_index       |-> Get(d, "poverty_index", 5),
     project_impact      |-> Get(d, "project_impact", 5),
     environmental_score |-> Get(d, "environmental_score", 5),
     corruption_risk     |-> Get(d, "corruption_risk", 5)]

\* the arguments get_priority_calculation passes to calculate_priority
Forwarded(d) ==
    [poverty_index       |-> Get(d, "poverty_index", 5),
     project_impact      |-> Get(d, "project_impact", 5),
     environmental_score |-> Get(d, "environmental_score", 5),
     corruption_risk     |-> Get(d, "corruption_risk", 3)]

get_priority_calculation(d, m, r, tieUp) ==
    LET a == Forwarded(d)
    IN  calculate_priority(a.poverty_index, a.project_impact, a.environmental_score,
                           a.corruption_risk, m, r, tieUp)

(* ---------------------------------------------------------------------- *)
(* State machine: one call per behaviour                                   *)
(* ---------------------------------------------------------------------- *)

NoArgs == [k \in Keys |-> Absent]

Init ==
    /\ pc = "ready"
    /\ \/ /\ entry = "calculate_priority"
          /\ args \in [Keys -> Metrics]
          /\ data = NoArgs
       \/ /\ entry = "get_priority_calculation"
          /\ args = NoArgs
          /\ data \in [Keys -> Metrics \cup {Absent}]
    /\ metta = "none"
    /\ fp = 0
    /\ branch = "none"
    /\ raw_score = 0
    /\ raw_allocation = 0
    /\ result = NoResult

\* a caller calls calculate_priority(args...)
CalculatePriority ==
    /\ pc = "ready"
    /\ entry = "calculate_priority"
    /\ \E m \in MettaOutcomes, r \in Residues(args), tieUp \in BOOLEAN :
          \E out \in {calculate_priority(args.poverty_index, args.project_impact,
                                        args.environmental_score, args.corruption_risk,
                                        m, r, tieUp)} :
              /\ metta' = m
              /\ fp' = r
              /\ branch' = out.path
              /\ raw_score' = out.priority_score
              /\ raw_allocation' = out.allocation_percentage
              /\ result' = out.result
    /\ pc' = "done"
    /\ UNCHANGED <<entry, data, args>>

\* a caller calls get_priority_calculation(data)
GetPriorityCalculation ==
    /\ pc = "ready"
    /\ entry = "get_priority_calculation"
    /\ \E m \in MettaOutcomes, r \in Residues(Forwarded(data)), tieUp \in BOOLEAN :
          \E out \in {get_priority_calculation(data, m, r, tieUp)} :
              /\ metta' = m
              /\ fp' = r
              /\ branch' = out.path
              /\ raw_score' = out.priority_score
              /\ raw_allocation' = out.allocation_percentage
              /\ result' = out.result
    /\ args' = Forwarded(data)
    /\ pc' = "done"
    /\ UNCHANGED <<entry, data>>

Next == CalculatePriority \/ GetPriorityCalculation

Spec == Init /\ [][Next]_vars

(* ---------------------------------------------------------------------- *)
(* Properties                                                              *)
(* ---------------------------------------------------------------------- *)

\* the call has returned a result dict
Returned == pc = "done" /\ result.status = "returned"

\* the four arguments lie in [0, 1]
InRange == \A k \in Keys : args[k] >= 0 /\ args[k] <= 10

\* poverty*0.4 + impact*0.3 + environmental*0.2 + (1 - corruption)*0.1, in hundredths
WeightedSum ==
    4 * args.poverty_index + 3 * args.project_impact
    + 2 * args.environmental_score + (10 - args.corruption_risk)

\* C1: with arguments in [0,1]^4, when the engine is absent, raises or returns
\* an empty result, the call returns priority_score equal to
\* poverty*0.4 + impact*0.3 + environmental*0.2 + (1-corruption)*0.1 rounded
\* to 4 decimals.
C1_FallbackScoreIsWeightedSum ==
    (pc = "done" /\ InRange /\ metta \in {"unavailable", "run_error", "empty"})
        => /\ result.status = "returned"
           /\ branch = "python"
           /\ result.priority_score = WeightedSum * 100

\* C1 witness: calculate_priority(0.8, 0.6, 0.5, 0.2) with an engine that raises
\* has returned 0.68
C1_Witness ==
    /\ pc = "done"
    /\ metta = "run_error"
    /\ args = [poverty_index |-> 8, project_impact |-> 6,
               environmental_score |-> 5, corruption_risk |-> 2]
    /\ result.status = "returned"
    /\ result.priority_score = 6800

ResultFields ==
    {"status", "priority_score", "priority_level", "allocation_percentage",
     "confidence_score", "explanation", "key_findings", "recommendations",
     "factors", "engine"}

\* C2: for arguments in [0,1]^4 and every outcome of the engine (unavailable,
\* error while running, malformed or unparsable output, empty result) the call
\* returns a complete result and no exception reaches the caller; on each of
\* these failures the score is the deterministic formula's.
C2_AlwaysReturns ==
    (pc = "done" /\ InRange)
        => /\ result.status = "returned"
           /\ DOMAIN result = ResultFields
           /\ metta # "number"
                => /\ branch = "python"
                   /\ raw_score = WeightedSum * 10000 + fp
                   /\ result.priority_score = WeightedSum * 100

\* C2 witness: a call whose engine output did not parse as a number has returned
C2_Witness ==
    /\ pc = "done"
    /\ InRange
    /\ metta = "unparsable"
    /\ result.status = "returned"
    /\ branch = "python"

\* C3: the engine tag identifies the path that produced the score: a call whose
\* score came from the engine and a call whose score came from the fallback
\* formula return different engine tags.
C3_EngineTagIdentifiesPath ==
    Returned =>
        \A m2 \in MettaOutcomes :
            \E other \in {calculate_priority(args.poverty_index, args.project_impact,
                                             args.environmental_score,
                                             args.corruption_risk, m2, 0, TRUE)} :
                other.path # branch => other.result.engine # result.engine

\* C4: the level follows the thresholds, highest first: score >= 0.7 critical,
\* 0.5 <= score < 0.7 high, 0.3 <= score < 0.5 medium, score < 0.3 low; the
\* boundaries 0.7, 0.5, 0.3 belong to the upper level and the level is one of
\* the four, whichever path produced the score.
C4_LevelByThresholds ==
    Returned =>
        /\ result.priority_level \in {"critical", "high", "medium", "low"}
        /\ (result.priority_level = "critical") <=> (raw_score >= 700000)
        /\ (result.priority_level = "high") <=> (raw_score >= 500000 /\ raw_score < 700000)
        /\ (result.priority_level = "medium") <=> (raw_score >= 300000 /\ raw_score < 500000)
        /\ (result.priority_level = "low") <=> (raw_score < 300000)

\* C4 witness: an engine-computed score of exactly 0.7 has been classified critical
C4_Witness ==
    /\ Returned
    /\ branch = "metta"
    /\ raw_score = 700000
    /\ result.priority_level = "critical"

\* scores from 0 to 1.1 in steps of 0.05, in millionths
SampleScores == {k * 50000 : k \in 0 .. 22}

\* C5: allocation_percentage is clamp(score*100, 10, 100) rounded to 2
\* decimals: always within [10, 100], exactly 10 for scores below 0.10, 100 at
\* score 1.0, and non-decreasing in the score.
C5_AllocationClamped ==
    Returned =>
        LET x == raw_score * 100
            clamped == IF x < 10000000 THEN 10000000
                       ELSE IF x > 100000000 THEN 100000000 ELSE x
        IN  /\ raw_allocation = clamped
            /\ result.allocation_percentage * 10000 - clamped <= 5000
            /\ clamped - result.allocation_percentage * 10000 <= 5000
            /\ result.allocation_percentage >= 1000
            /\ result.allocation_percentage <= 10000
            /\ raw_score < 100000 => result.allocation_percentage = 1000
            /\ raw_score = 1000000 => result.allocation_percentage = 10000
            /\ \A s2 \in SampleScores \cup {raw_score - 1, raw_score + 1} :
                  /\ s2 <= raw_score => AllocationPercentage(s2) <= raw_allocation
                  /\ s2 >= raw_score => AllocationPercentage(s2) >= raw_allocation

\* C5 witness: a score of 0.05 has been given the floor allocation of 10
C5_Witness ==
    /\ Returned
    /\ raw_score = 50000
    /\ raw_allocation = 10000000
    /\ result.allocation_percentage = 1000

\* C6: with arguments in [0,1]^4, whichever path produced the score,
\* confidence_score is 0.85 + 0.1*score rounded to 2 decimals and lies in
\* [0.85, 0.95]; it is 0.85 at score 0 and 0.95 at score 1.
C6_ConfidenceAffine ==
    (Returned /\ InRange) =>
        LET exact == 8500000 + raw_score
        IN  /\ result.confidence_score * 100000 - exact <= 50000
            /\ exact - result.confidence_score * 100000 <= 50000
            /\ result.confidence_score >= 85
            /\ result.confidence_score <= 95
            /\ raw_score - fp = 0 => result.confidence_score = 85
            /\ raw_score - fp = 1000000 => result.confidence_score = 95

\* C6 witness: an engine-computed score of 0.68 has been given confidence 0.92
C6_Witness ==
    /\ Returned
    /\ InRange
    /\ branch = "metta"
    /\ raw_score = 680000
    /\ result.confidence_score = 92

\* the texts of a list of findings
Texts(findings) == [n \in 1 .. Len(findings) |-> findings[n].text]

\* the sequence of the elements of seq whose flag is set in keep
RECURSIVE Kept(_, _)
Kept(seq, keep) ==
    IF seq = <<>> THEN <<>>
    ELSE (IF Head(keep) THEN <<Head(seq)>> ELSE <<>>) \o Kept(Tail(seq), Tail(keep))

\* C7: key_findings is the single "balanced conditions" finding if and only if
\* poverty < 0.7, impact < 0.7, environmental < 0.7 and 0.3 < corruption < 0.6;
\* otherwise it holds exactly the triggered findings in the order poverty,
\* impact, environmental, corruption, with at most one corruption finding
\* (elevated at >= 0.6, low at <= 0.3); it is never empty.
C7_KeyFindings ==
    Returned =>
        LET f == result.key_findings
            quiet == /\ args.poverty_index < 7
                     /\ args.project_impact < 7
                     /\ args.environmental_score < 7
                     /\ args.corruption_risk > 3
                     /\ args.corruption_risk < 6
            triggered ==
                Kept(<<"High poverty rate detected",
                       "High project impact potential",
                       "Severe environmental degradation",
                       "Elevated corruption risk",
                       "Low corruption risk">>,
                     <<args.poverty_index >= 7,
                       args.project_impact >= 7,
                       args.environmental_score >= 7,
                       args.corruption_risk >= 6,
                       args.corruption_risk <= 3>>)
        IN  /\ Len(f) >= 1
            /\ (f = <<Balanced>>) <=> quiet
            /\ (\E n \in 1 .. Len(f) : f[n] = Balanced) <=> quiet
            /\ ~quiet => Texts(f) = triggered
            /\ Cardinality({n \in 1 .. Len(f) :
                   f[n].text \in {"Elevated corruption risk", "Low corruption risk"}}) <= 1

\* C7 witness: a call with all metrics at 0.5 has returned the balanced
\* finding alone
C7_Witness ==
    /\ Returned
    /\ args = [k \in Keys |-> 5]
    /\ result.key_findings = <<Balanced>>

Aggressive == <<"Allocate majority of available funds to this region",
                "Fast-track project approvals and implementation">>

Standard == <<"Provide substantial funding allocation",
              "Implement standard monitoring protocols">>

Conservative == <<"Provide moderate funding allocation",
                  "Monitor for changing conditions">>

\* 1 if the condition holds, else 0
Ind(b) == IF b THEN 1 ELSE 0

\* C8: recommendations begins with the 2 items of the allocation band
\* (allocation >= 70 aggressive, 50 <= allocation < 70 standard, below 50
\* conservative), followed by the metric items in the order poverty >= 0.7
\* (2), impact >= 0.7 (1), environmental >= 0.7 (2), corruption >= 0.6 (2);
\* its length is 2 + 2[poverty] + [impact] + 2[environmental] + 2[corruption],
\* between 2 and 9.
C8_Recommendations ==
    Returned =>
        LET recs == result.recommendations
            band == IF raw_allocation >= 70000000 THEN Aggressive
                    ELSE IF raw_allocation >= 50000000 THEN Standard
                    ELSE Conservative
            items ==
                Kept(<<"Prioritize poverty alleviation programs",
                       "Implement cash transfer or social safety net schemes",
                       "Maximize investment in high-impact projects",
                       "Include environmental restoration components",
                       "Engage local communities in conservation",
                       "Establish strong audit and oversight mechanisms",
                       "Use transparent digital payment systems">>,
                     <<args.poverty_index >= 7, args.poverty_index >= 7,
                       args.project_impact >= 7,
                       args.environmental_score >= 7, args.environmental_score >= 7,
                       args.corruption_risk >= 6, args.corruption_risk >= 6>>)
        IN  /\ Len(recs) >= 2
            /\ Len(recs) <= 9
            /\ SubSeq(recs, 1, 2) = band
            /\ SubSeq(recs, 3, Len(recs)) = items
            /\ Len(recs) = 2 + 2 * Ind(args.poverty_index >= 7)
                             + Ind(args.project_impact >= 7)
                             + 2 * Ind(args.environmental_score >= 7)
                             + 2 * Ind(args.corruption_risk >= 6)

\* C8 witness: a call with poverty, impact and environmental at 0.7 and
\* corruption at 0.6 has returned 9 recommendations
C8_Witness ==
    /\ Returned
    /\ args = [poverty_index |-> 7, project_impact |-> 7,
               environmental_score |-> 7, corruption_risk |-> 6]
    /\ Len(result.recommendations) = 9
    /\ SubSeq(result.recommendations, 1, 2) = Standard

\* data[key] when the mapping holds the key, else the default
OrDefault(key, default) == IF data[key] = Absent THEN default ELSE data[key]

\* C9: get_priority_calculation(data) returns what calculate_priority returns
\* for the metrics of the mapping, each missing key replaced by its default
\* poverty_index 0.5, project_impact 0.5, environmental_score 0.5,
\* corruption_risk 0.3; the empty mapping gives calculate_priority(0.5, 0.5,
\* 0.5, 0.3).
C9_AdapterDefaults ==
    (pc = "done" /\ entry = "get_priority_calculation") =>
        /\ args = [poverty_index       |-> OrDefault("poverty_index", 5),
                   project_impact      |-> OrDefault("project_impact", 5),
                   environmental_score |-> OrDefault("environmental_score", 5),
                   corruption_risk     |-> OrDefault("corruption_risk", 3)]
        /\ \E tieUp \in BOOLEAN :
              result = calculate_priority(OrDefault("poverty_index", 5),
                                          OrDefault("project_impact", 5),
                                          OrDefault("environmental_score", 5),
                                          OrDefault("corruption_risk", 3),
                                          metta, fp, tieUp).result
        /\ data = NoArgs =>
              \E tieUp \in BOOLEAN :
                  result = calculate_priority(5, 5, 5, 3, metta, fp, tieUp).result

\* C9 witness: get_priority_calculation of the empty mapping has returned the
\* score 0.52 of (0.5, 0.5, 0.5, 0.3)
C9_Witness ==
    /\ Returned
    /\ entry = "get_priority_calculation"
    /\ data = NoArgs
    /\ result.priority_score = 5200
    /\ result.priority_level = "high"

\* C10: in every result the band of the first two recommendations agrees with
\* the level: aggressive if and only if critical, standard if and only if
\* high, conservative if and only if medium or low.
C10_BandMatchesLevel ==
    Returned =>
        LET first == SubSeq(result.recommendations, 1, 2)
        IN  /\ (first = Aggressive) <=> (result.priority_level = "critical")
            /\ (first = Standard) <=> (result.priority_level = "high")
            /\ (first = Conservative) <=> (result.priority_level \in {"medium", "low"})

\* C10 witness: a score of exactly 0.7 has been classified critical and given
\* the aggressive pair
C10_Witness ==
    /\ Returned
    /\ raw_score = 700000
    /\ raw_allocation = 70000000
    /\ result.priority_level = "critical"
    /\ SubSeq(result.recommendations, 1, 2) = Aggressive

====
